---- MODULE Spec2Model ----
(***************************************************************************)
(* Model of chromo.kinematics: the EventKinematics constructor, its        *)
(* convenience subclasses CenterOfMass and FixedTarget, the structural     *)
(* equality __eq__ and apply_boost.                                        *)
(*                                                                         *)
(* Numbers.  The code computes with floats.  The model computes with exact *)
(* rationals [n, d] (d > 0, lowest terms) and with NaN, the value numpy's  *)
(* sqrt returns for a negative argument.  A value the rationals cannot     *)
(* hold (the root of a non-square, a division by zero) is Unrep; the       *)
(* constructor calls the model draws are those whose result holds no Unrep *)
(* (Representable), so Unrep never reaches a state.  Masses are given in   *)
(* units that make small integer energies land on rational roots.          *)
(***************************************************************************)
EXTENDS Integers, Sequences, FiniteSets

\* ------------------------------------------------------------------ bounds
\* Scalar inputs (ecm, plab, elab, ekin, beam momenta, tagged energies) are
\* the integers -MaxNeg .. MaxVal.
MaxNeg == 2
MaxVal == 8
\* Event arrays hold at most MaxLen particles; a particle's energy e is in
\* 1 .. MaxEv and its pz is 0 or e.
MaxLen == 2
MaxEv == 1
\* apply_boost is called at most MaxBoosts times on one event.
MaxBoosts == 1

\* ----------------------------------------------------------------- numbers
NaN == [n |-> 0, d |-> 0]
Unrep == [n |-> 1, d |-> 0]

Abs(x) == IF x < 0 THEN -x ELSE x

RECURSIVE GCD(_, _)
GCD(a, b) == IF b = 0 THEN a ELSE GCD(b, a % b)

\* The rational n/d (d > 0) in lowest terms.
Rat(n, d) ==
    LET g == GCD(Abs(n), d)
    IN  [n |-> n \div g, d |-> d \div g]

Int2F(k) == [n |-> k, d |-> 1]
Zero == Int2F(0)

IsNum(x) == x.d > 0

\* NaN is contagious; so is Unrep where no NaN is involved.
Special(a, b) == IF a = NaN \/ b = NaN THEN NaN ELSE Unrep

Add(a, b) ==
    IF IsNum(a) /\ IsNum(b)
    THEN Rat(a.n * b.d + b.n * a.d, a.d * b.d)
    ELSE Special(a, b)

Neg(a) == IF IsNum(a) THEN [n |-> -a.n, d |-> a.d] ELSE a

Sub(a, b) == Add(a, Neg(b))

Mul(a, b) ==
    IF IsNum(a) /\ IsNum(b)
    THEN Rat(a.n * b.n, a.d * b.d)
    ELSE Special(a, b)

Div(a, b) ==
    IF IsNum(a) /\ IsNum(b)
    THEN IF b.n = 0 THEN Unrep
         ELSE IF b.n > 0 THEN Rat(a.n * b.d, a.d * b.n)
         ELSE Rat(-(a.n * b.d), a.d * (-b.n))
    ELSE Special(a, b)

Sq(a) == Mul(a, a)

\* a > b as Python compares floats: False when either side is NaN.
Gt(a, b) == IsNum(a) /\ IsNum(b) /\ a.n * b.d > b.n * a.d

\* a == b as Python compares floats: NaN equals nothing, itself included.
FEq(a, b) == IsNum(a) /\ IsNum(b) /\ a = b

RECURSIVE Bisect(_, _, _)
Bisect(k, lo, hi) ==
    IF lo >= hi THEN lo
    ELSE LET mid == (lo + hi + 1) \div 2
         IN  IF mid * mid <= k THEN Bisect(k, mid, hi)
             ELSE Bisect(k, lo, mid - 1)

\* Floor of the square root of a natural number.
ISqrt(k) == Bisect(k, 0, IF k < 46340 THEN k ELSE 46340)

IsSquare(k) == ISqrt(k) * ISqrt(k) = k

\* np.sqrt: NaN for a negative argument, the root otherwise.
Sqrt(a) ==
    IF ~IsNum(a) THEN a
    ELSE IF a.n < 0 THEN NaN
    ELSE IF IsSquare(a.n) /\ IsSquare(a.d)
         THEN [n |-> ISqrt(a.n), d |-> ISqrt(a.d)]
    ELSE Unrep

\* --------------------------------------------- particles (chromo.util)
None == "None"
CENTER_OF_MASS == "CENTER_OF_MASS"
FIXED_TARGET == "FIXED_TARGET"
GENERIC == "GENERIC"
EventFrame == {CENTER_OF_MASS, FIXED_TARGET, GENERIC}

\* What a caller may pass as a particle: a name, a nucleus (here helium-4,
\* the tuple (4, 2)), a CompositeTarget (here air), or nothing.
ParticleArgs == {"p", "pi+", "He4", "Air", None}

\* process_particle: the canonical identity of a particle argument, a PDG
\* number or the CompositeTarget itself.
process_particle(x) ==
    CASE x = "p"   -> [kind |-> "pdg", id |-> 2212]
      [] x = "pi+" -> [kind |-> "pdg", id |-> 211]
      [] x = "He4" -> [kind |-> "pdg", id |-> 1000020040]
      [] OTHER     -> [kind |-> "composite", id |-> 0]

IsCompositeTarget(part) == part.kind = "composite"

\* Mass number A of a PDG nucleus code 10LZZZAAAI (0 for other particles).
MassNumber(part) ==
    IF part.kind = "pdg" /\ part.id >= 1000000000
    THEN (part.id \div 10) % 1000
    ELSE 0

\* is_real_nucleus: a nucleus of more than one nucleon, or a composite
\* target (a mixture of such nuclei).
is_real_nucleus(part) == IsCompositeTarget(part) \/ MassNumber(part) > 1

nucleon_mass == Rat(7, 2)

\* mass: the particle's rest mass.
mass(part) ==
    CASE part.kind = "pdg" /\ part.id = 2212 -> Rat(3, 1)
      [] part.kind = "pdg" /\ part.id = 211  -> Rat(5, 2)
      [] OTHER -> Mul(Int2F(MassNumber(part)), nucleon_mass)

\* ------------------------------------------ conversions (chromo.util)
energy2momentum(E, m) == Sqrt(Mul(Add(E, m), Sub(E, m)))

momentum2energy(p, m) == Sqrt(Add(Sq(p), Sq(m)))

elab2ecm(elab, m1, m2) ==
    Sqrt(Add(Add(Mul(Mul(Int2F(2), elab), m2), Sq(m2)), Sq(m1)))

ecm2elab(ecm, m1, m2) ==
    Div(Sub(Sub(Sq(ecm), Sq(m1)), Sq(m2)), Mul(Int2F(2), m2))

\* ------------------------------------------------ EventKinematics.__init__
InputKinds == {"ecm", "plab", "elab", "ekin", "beam"}

\* The arguments that are not None.
Given(a) == {k \in InputKinds : a[k] # <<>>}

\* A count check that lets several inputs through (the first in the chain's
\* order then wins); C1 tells it from ExactlyOneGiven.
AtLeastOneGiven(a) == Cardinality(Given(a)) >= 1

ExactlyOneGiven(a) == Cardinality(Given(a)) = 1

\* The mass the kinematics use for a resolved particle.
KinMass(part) == IF is_real_nucleus(part) THEN nucleon_mass ELSE mass(part)

\* frame or default
FrameOr(frame, default) == IF frame # None THEN frame ELSE default

ZeroBeam == <<Zero, Zero, Zero, Zero>>

\* beams = (np.zeros(4), np.zeros(4))
NoBeams == <<ZeroBeam, ZeroBeam>>

\* The exceptions the module raises, with their messages.
NoError == [type |-> "none", msg |-> ""]
ValueError(msg) == [type |-> "ValueError", msg |-> msg]
NotImplementedError(msg) == [type |-> "NotImplementedError", msg |-> msg]

OnlyOneInput == "Please provide only one of ecm/plab/elab/ekin/beam arguments"
ParticlesMustBeSet == "particle1 and particle2 must be set"
OnlySecondComposite == "Only 2nd particle can be CompositeTarget"
BeamWithComposite == "beam cannot be used with CompositeTarget"
EnergyAboveMass == "projectile energy > projectile mass required"
NotAnEnergy == "neither a number nor one of TotalEnergy, KinEnergy, Momentum"
BoostNotSupported == "Boosts are not yet supported"

\* The locals frame, ecm, plab, elab, ekin, beams after the if/elif chain.
Scalars(frame, ecm, plab, elab, ekin, beams) ==
    [raised |-> NoError, frame |-> frame, ecm |-> ecm, plab |-> plab,
     elab |-> elab, ekin |-> ekin, beams |-> beams]

\* A branch of the chain that raises.
Rejected(msg) ==
    [raised |-> ValueError(msg), frame |-> None, ecm |-> Zero, plab |-> Zero,
     elab |-> Zero, ekin |-> Zero, beams |-> NoBeams]

\* ekin = elab - m1; plab = energy2momentum(elab, m1)
FromEcm(frame, ecm, elab, m1, beams) ==
    Scalars(frame, ecm, energy2momentum(elab, m1), elab, Sub(elab, m1), beams)

EcmBranch(a, m1, m2) ==
    FromEcm(FrameOr(a.frame, CENTER_OF_MASS), a.ecm[1],
            ecm2elab(a.ecm[1], m1, m2), m1, NoBeams)

\* beams[i][2] = p_i; beams[i][3] = momentum2energy(p_i, m_i)
BeamVectors(p1, p2, m1, m2) ==
    << <<Zero, Zero, p1, momentum2energy(p1, m1)>>,
       <<Zero, Zero, p2, momentum2energy(p2, m2)>> >>

\* s = np.sum(beams, axis=0); ecm = energy2momentum(s[3], s[2])
BeamEcm(beams) ==
    energy2momentum(Add(beams[1][4], beams[2][4]), Add(beams[1][3], beams[2][3]))

BeamFromEcm(frame, ecm, beams, m1, m2) ==
    FromEcm(FrameOr(frame, GENERIC), ecm, ecm2elab(ecm, m1, m2), m1, beams)

BeamScalars(frame, beams, m1, m2) ==
    BeamFromEcm(frame, BeamEcm(beams), beams, m1, m2)

BeamBranch(a, m1, m2, p2_is_composite) ==
    IF p2_is_composite THEN Rejected(BeamWithComposite)
    ELSE BeamScalars(a.frame, BeamVectors(a.beam[1][1], a.beam[1][2], m1, m2),
                     m1, m2)

\* An energy check that lets elab = m1 through; C8 tells it from
\* ElabAccepted.
ElabAtLeast(elab, m1) == Gt(elab, m1) \/ elab = m1

\* if not (elab > m1): raise
ElabAccepted(elab, m1) == Gt(elab, m1)

\* plab = energy2momentum(elab, m1); ecm = elab2ecm(elab, m1, m2)
FromElab(frame, elab, ekin, m1, m2) ==
    Scalars(FrameOr(frame, FIXED_TARGET), elab2ecm(elab, m1, m2),
            energy2momentum(elab, m1), elab, ekin, NoBeams)

ElabBranch(a, m1, m2) ==
    IF ~ElabAccepted(a.elab[1], m1) THEN Rejected(EnergyAboveMass)
    ELSE FromElab(a.frame, a.elab[1], Sub(a.elab[1], m1), m1, m2)

EkinBranch(a, m1, m2) ==
    FromElab(a.frame, Add(a.ekin[1], m1), a.ekin[1], m1, m2)

\* A plab branch that stores the total energy as ekin; C3 tells it from
\* FromPlab.
FromPlabTotal(frame, plab, elab, m1, m2) ==
    Scalars(FrameOr(frame, FIXED_TARGET), elab2ecm(elab, m1, m2), plab,
            elab, elab, NoBeams)

\* ekin = elab - m1; ecm = elab2ecm(elab, m1, m2)
FromPlab(frame, plab, elab, m1, m2) ==
    Scalars(FrameOr(frame, FIXED_TARGET), elab2ecm(elab, m1, m2), plab,
            elab, Sub(elab, m1), NoBeams)

PlabBranch(a, m1, m2) ==
    FromPlab(a.frame, a.plab[1], momentum2energy(a.plab[1], m1), m1, m2)

\* The if/elif chain over the inputs, in the code's order.
Branch(a, m1, m2, p2_is_composite) ==
    IF a.ecm # <<>> THEN EcmBranch(a, m1, m2)
    ELSE IF a.beam # <<>> THEN BeamBranch(a, m1, m2, p2_is_composite)
    ELSE IF a.elab # <<>> THEN ElabBranch(a, m1, m2)
    ELSE IF a.ekin # <<>> THEN EkinBranch(a, m1, m2)
    ELSE PlabBranch(a, m1, m2)

\* b[3] = np.sqrt(m**2 + b[2]**2)
SetEnergy(b, m) == [b EXCEPT ![4] = Sqrt(Add(Sq(m), Sq(b[3])))]

\* beams[0][2] = pz1; beams[1][2] = pz2; then the energies
SetBeams(beams, pz1, pz2, m1, m2) ==
    <<SetEnergy([beams[1] EXCEPT ![3] = pz1], m1),
      SetEnergy([beams[2] EXCEPT ![3] = pz2], m2)>>

\* pcm = np.sqrt((s - (m1 + m2)**2) * (s - (m1 - m2)**2)) / (2 * ecm)
CmsMomentum(ecm, m1, m2) ==
    Div(Sqrt(Mul(Sub(Sq(ecm), Sq(Add(m1, m2))), Sub(Sq(ecm), Sq(Sub(m1, m2))))),
        Mul(Int2F(2), ecm))

CmsBeams(beams, pcm, m1, m2) == SetBeams(beams, pcm, Neg(pcm), m1, m2)

\* "fill beams"
FillBeams(frame, ecm, plab, beams, m1, m2) ==
    IF frame = GENERIC THEN beams
    ELSE IF frame = CENTER_OF_MASS
    THEN CmsBeams(beams, CmsMomentum(ecm, m1, m2), m1, m2)
    ELSE IF frame = FIXED_TARGET THEN SetBeams(beams, plab, Zero, m1, m2)
    ELSE SetBeams(beams, beams[1][3], beams[2][3], m1, m2)

Raised(e) == [raised |-> e, obj |-> <<>>]
Returned(o) == [raised |-> NoError, obj |-> <<o>>]

\* super().__init__(frame, part1, part2, ecm, plab, elab, ekin, beams,
\* _gamma_cm, _betagamma_cm)
MakeObject(r, part1, part2, m1, m2) ==
    IF r.raised # NoError THEN Raised(r.raised)
    ELSE Returned(
        [frame |-> r.frame, p1 |-> part1, p2 |-> part2,
         ecm |-> r.ecm, plab |-> r.plab, elab |-> r.elab, ekin |-> r.ekin,
         beams |-> FillBeams(r.frame, r.ecm, r.plab, r.beams, m1, m2),
         gamma_cm |-> Div(Add(r.elab, m2), r.ecm),
         betagamma_cm |-> Div(r.plab, r.ecm)])

WithMasses(a, part1, part2, m1, m2) ==
    MakeObject(Branch(a, m1, m2, IsCompositeTarget(part2)), part1, part2, m1, m2)

Resolved(a, part1, part2) ==
    IF IsCompositeTarget(part1) THEN Raised(ValueError(OnlySecondComposite))
    ELSE WithMasses(a, part1, part2, KinMass(part1), KinMass(part2))

\* EventKinematics(particle1, particle2, *, ecm, plab, elab, ekin, beam,
\* frame): what the call raises, or the object it constructs.
EventKinematicsInit(a) ==
    IF ~ExactlyOneGiven(a) THEN Raised(ValueError(OnlyOneInput))
    ELSE IF a.particle1 = None \/ a.particle2 = None
    THEN Raised(ValueError(ParticlesMustBeSet))
    ELSE Resolved(a, process_particle(a.particle1), process_particle(a.particle2))

Args(p1, p2, ecm, plab, elab, ekin, beam, frame) ==
    [particle1 |-> p1, particle2 |-> p2, ecm |-> ecm, plab |-> plab,
     elab |-> elab, ekin |-> ekin, beam |-> beam, frame |-> frame]

\* CenterOfMass(ecm, particle1, particle2)
CenterOfMassInit(ecm, particle1, particle2) ==
    EventKinematicsInit(
        Args(particle1, particle2, ecm, <<>>, <<>>, <<>>, <<>>, None))

\* The forms of FixedTarget's energy argument: a bare int or float, one of
\* the three TaggedFloat subclasses, or anything else (here a string).
EnergyTags == {"number", "TotalEnergy", "KinEnergy", "Momentum", "str"}

\* float(energy): the number an energy argument [tag, val] carries.
float(energy) == Int2F(energy.val)

\* A FixedTarget that passes every recognised energy as elab; C9 tells it
\* from FixedTargetInit.
FixedTargetAsElab(energy, particle1, particle2) ==
    IF energy.tag \in {"TotalEnergy", "number", "KinEnergy", "Momentum"}
    THEN EventKinematicsInit(
        Args(particle1, particle2, <<>>, <<>>, <<float(energy)>>, <<>>, <<>>, None))
    ELSE Raised(ValueError(NotAnEnergy))

\* FixedTarget(energy, particle1, particle2); energy is [tag, val].
FixedTargetInit(energy, particle1, particle2) ==
    IF energy.tag \in {"TotalEnergy", "number"}
    THEN EventKinematicsInit(
        Args(particle1, particle2, <<>>, <<>>, <<float(energy)>>, <<>>, <<>>, None))
    ELSE IF energy.tag = "KinEnergy"
    THEN EventKinematicsInit(
        Args(particle1, particle2, <<>>, <<>>, <<>>, <<float(energy)>>, <<>>, None))
    ELSE IF energy.tag = "Momentum"
    THEN EventKinematicsInit(
        Args(particle1, particle2, <<>>, <<float(energy)>>, <<>>, <<>>, <<>>, None))
    ELSE Raised(ValueError(NotAnEnergy))

\* ------------------------------------------------------------- __eq__
ArrayEqual(x, y) ==
    /\ Len(x) = Len(y)
    /\ \A i \in 1..Len(x) : FEq(x[i], y[i])

\* EventKinematicsBase.__eq__: the fields of astuple, compared in order;
\* a tuple elementwise, an array with np.array_equal, the rest with ==.
Eq(self, other) ==
    /\ self.frame = other.frame
    /\ self.p1 = other.p1
    /\ self.p2 = other.p2
    /\ FEq(self.ecm, other.ecm)
    /\ FEq(self.plab, other.plab)
    /\ FEq(self.elab, other.elab)
    /\ FEq(self.ekin, other.ekin)
    /\ \A i \in 1..2 : ArrayEqual(self.beams[i], other.beams[i])
    /\ FEq(self.gamma_cm, other.gamma_cm)
    /\ FEq(self.betagamma_cm, other.betagamma_cm)

\* -------------------------------------------------------- apply_boost
\* A boost that writes event.en before it computes pz, so that pz is
\* computed from the new energies; C5 tells it from Boost.
BoostInPlace(g, bg, ev) ==
    [en |-> [i \in 1..Len(ev.en) |-> Add(Mul(g, ev.en[i]), Mul(bg, ev.pz[i]))],
     pz |-> [i \in 1..Len(ev.pz) |->
                Add(Mul(bg, Add(Mul(g, ev.en[i]), Mul(bg, ev.pz[i]))),
                    Mul(g, ev.pz[i]))]]

\* en = g * event.en + bg * event.pz; pz = bg * event.en + g * event.pz;
\* event.en[:] = en; event.pz[:] = pz
Boost(g, bg, ev) ==
    [en |-> [i \in 1..Len(ev.en) |-> Add(Mul(g, ev.en[i]), Mul(bg, ev.pz[i]))],
     pz |-> [i \in 1..Len(ev.pz) |-> Add(Mul(bg, ev.en[i]), Mul(g, ev.pz[i]))]]

\* An apply_boost without the early return; C7 tells it from IsIdentity.
NeverIdentity(generator_frame, frame) == FALSE

\* if generator_frame == self.frame: return
IsIdentity(generator_frame, frame) == generator_frame = frame

\* A frame dispatch that boosts every pair that is not center-of-mass to
\* fixed-target as if it were fixed-target to center-of-mass; C6 tells it
\* from BoostFactor.
BoostFactorAnyPair(self, generator_frame) ==
    IF generator_frame = CENTER_OF_MASS /\ self.frame = FIXED_TARGET
    THEN <<self.betagamma_cm>>
    ELSE <<Neg(self.betagamma_cm)>>

\* The betagamma of a supported frame pair, <<>> for an unsupported one.
BoostFactor(self, generator_frame) ==
    IF generator_frame = FIXED_TARGET /\ self.frame = CENTER_OF_MASS
    THEN <<Neg(self.betagamma_cm)>>
    ELSE IF generator_frame = CENTER_OF_MASS /\ self.frame = FIXED_TARGET
    THEN <<self.betagamma_cm>>
    ELSE <<>>

\* self.apply_boost(event, generator_frame): what it raises, and self and
\* the event's arrays after the call.
apply_boost(self, ev, generator_frame) ==
    IF IsIdentity(generator_frame, self.frame)
    THEN [raised |-> NoError, self |-> self, event |-> ev]
    ELSE LET bg == BoostFactor(self, generator_frame)
         IN  IF bg = <<>>
             THEN [raised |-> NotImplementedError(BoostNotSupported), self |-> self,
                   event |-> ev]
             ELSE [raised |-> NoError, self |-> self,
                   event |-> Boost(self.gamma_cm, bg[1], ev)]

\* ------------------------------------------------------------- inputs
Vals == {Int2F(k) : k \in (-MaxNeg)..MaxVal}
EdgeVals == {Int2F(-MaxNeg), Int2F(MaxVal)}
FrameArgs == EventFrame \cup {None}
Opt(S) == {<<>>} \cup {<<v>> : v \in S}

NoInput(p1, p2, frame) == Args(p1, p2, <<>>, <<>>, <<>>, <<>>, <<>>, frame)

\* The forms of the five inputs: one scalar, one beam pair, or none or
\* several at once (each value given being one end of the value range).
ScalarInputs ==
    {[i EXCEPT ![k] = <<v>>] :
        i \in {[ecm |-> <<>>, plab |-> <<>>, elab |-> <<>>, ekin |-> <<>>,
                beam |-> <<>>]},
        k \in {"ecm", "plab", "elab", "ekin"}, v \in Vals}

BeamInputs ==
    {[ecm |-> <<>>, plab |-> <<>>, elab |-> <<>>, ekin |-> <<>>,
      beam |-> << <<v, w>> >>] : v \in Vals, w \in Vals}

MultiInputs ==
    {i \in [ecm : Opt(EdgeVals), plab : Opt(EdgeVals), elab : Opt(EdgeVals),
            ekin : Opt(EdgeVals),
            beam : Opt({<<Int2F(-MaxNeg), Int2F(MaxVal)>>})] :
        Cardinality(Given(i)) # 1}

Inputs == ScalarInputs \cup BeamInputs \cup MultiInputs

WithInput(p1, p2, i, frame) ==
    Args(p1, p2, i.ecm, i.plab, i.elab, i.ekin, i.beam, frame)

HasUnrep(o) ==
    \/ Unrep \in {o.ecm, o.plab, o.elab, o.ekin, o.gamma_cm, o.betagamma_cm}
    \/ \E i \in 1..2 : \E j \in 1..4 : o.beams[i][j] = Unrep

\* The call's outcome lies in the model's number domain.
Representable(res) == IF res.obj = <<>> THEN TRUE ELSE ~HasUnrep(res.obj[1])

Energies ==
    [tag : EnergyTags \ {"str"}, val : (-MaxNeg)..MaxVal]
        \cup {[tag |-> "str", val |-> 0]}

Elems ==
    UNION {{<<Int2F(e), Zero>>, <<Int2F(e), Int2F(e)>>} : e \in 1..MaxEv}

\* The events: equally long en and pz arrays of at most MaxLen particles.
Events ==
    UNION {{[en |-> [i \in 1..n |-> f[i][1]], pz |-> [i \in 1..n |-> f[i][2]]] :
                f \in [1..n -> Elems]} : n \in 0..MaxLen}

NoEvent == [en |-> <<>>, pz |-> <<>>]
NoEnergy == [tag |-> "none", val |-> 0]
NoCall == [fn |-> "none", args |-> NoInput(None, None, None), energy |-> NoEnergy]

\* -------------------------------------------------------------- state
VARIABLES
    pc,      \* where the program is
    call,    \* the constructor call made: [fn, args, energy]
    kin,     \* <<>> or <<the kinematics object>>
    err,     \* the exception the last call raised, or "none"
    twin,    \* <<>> or <<a second object of the same collision>>
    eq,      \* <<>> or <<the result of kin == twin>>
    event,   \* the event's arrays [en, pz]
    hist     \* the apply_boost calls made: [on, gen, self, event] before each

vars == <<pc, call, kin, err, twin, eq, event, hist>>

\* ---------------------------------------------------- Spec: construction
Init ==
    /\ pc = "start"
    /\ call = NoCall
    /\ kin = <<>>
    /\ err = NoError
    /\ twin = <<>>
    /\ eq = <<>>
    /\ event = NoEvent
    /\ hist = <<>>

Finish(c, res) ==
    /\ Representable(res)
    /\ call' = c
    /\ kin' = res.obj
    /\ err' = res.raised
    /\ pc' = IF res.raised = NoError THEN "built" ELSE "failed"
    /\ UNCHANGED <<twin, eq, event, hist>>

NewEventKinematics ==
    /\ pc = "start"
    /\ \E p1 \in ParticleArgs, p2 \in ParticleArgs, f \in FrameArgs, i \in Inputs :
        Finish([fn |-> "EventKinematics", args |-> WithInput(p1, p2, i, f),
                energy |-> NoEnergy],
               EventKinematicsInit(WithInput(p1, p2, i, f)))

NewCenterOfMass ==
    /\ pc = "start"
    /\ \E p1 \in ParticleArgs, p2 \in ParticleArgs, ecm \in Opt(Vals) :
        Finish([fn |-> "CenterOfMass",
                args |-> [NoInput(p1, p2, None) EXCEPT !.ecm = ecm],
                energy |-> NoEnergy],
               CenterOfMassInit(ecm, p1, p2))

NewFixedTarget ==
    /\ pc = "start"
    /\ \E p1 \in ParticleArgs, p2 \in ParticleArgs, energy \in Energies :
        Finish([fn |-> "FixedTarget", args |-> NoInput(p1, p2, None),
                energy |-> energy],
               FixedTargetInit(energy, p1, p2))

\* The same collision constructed again from the derived plab:
\* EventKinematics(particle1, particle2, plab=kin.plab, frame=f).
PlabArgs(c, o, f) ==
    [NoInput(c.args.particle1, c.args.particle2, f) EXCEPT !.plab = <<o.plab>>]

Rebuilt(res) ==
    /\ res.raised = NoError
    /\ Representable(res)
    /\ twin' = res.obj
    /\ pc' = "rebuilt"
    /\ UNCHANGED <<call, kin, err, eq, event, hist>>

NewFromPlab ==
    /\ pc = "built"
    /\ \E f \in FrameArgs : Rebuilt(EventKinematicsInit(PlabArgs(call, kin[1], f)))

Compare ==
    /\ pc = "rebuilt"
    /\ eq' = <<Eq(kin[1], twin[1])>>
    /\ pc' = "compared"
    /\ UNCHANGED <<call, kin, err, twin, event, hist>>

Next ==
    \/ NewEventKinematics
    \/ NewCenterOfMass
    \/ NewFixedTarget
    \/ NewFromPlab
    \/ Compare

Spec == Init /\ [][Next]_vars

\* ------------------------------------------- SpecBoost: apply_boost
\* The calls of apply_boost on one event, on any object the constructor
\* returns.
Constructed(c, res, ev) ==
    /\ res.raised = NoError
    /\ Representable(res)
    /\ pc = "event"
    /\ call = c
    /\ kin = res.obj
    /\ err = NoError
    /\ twin = <<>>
    /\ eq = <<>>
    /\ event = ev
    /\ hist = <<>>

InitBoost ==
    \E p1 \in ParticleArgs, p2 \in ParticleArgs, f \in FrameArgs,
       i \in ScalarInputs \cup BeamInputs, ev \in Events :
        Constructed([fn |-> "EventKinematics", args |-> WithInput(p1, p2, i, f),
                     energy |-> NoEnergy],
                    EventKinematicsInit(WithInput(p1, p2, i, f)), ev)

Called(on, gen, r, next) ==
    /\ hist' = Append(hist, [on |-> on, gen |-> gen,
                             self |-> IF on = "kin" THEN kin[1] ELSE twin[1],
                             event |-> event])
    /\ kin' = IF on = "kin" THEN <<r.self>> ELSE kin
    /\ twin' = IF on = "twin" THEN <<r.self>> ELSE twin
    /\ event' = r.event
    /\ err' = r.raised
    /\ pc' = IF r.raised = NoError THEN next ELSE "failed"
    /\ UNCHANGED <<call, eq>>

ApplyBoost ==
    /\ pc = "event"
    /\ Len(hist) < MaxBoosts
    /\ \E gen \in EventFrame :
        Called("kin", gen, apply_boost(kin[1], event, gen), "event")

NextBoost == ApplyBoost

SpecBoost == InitBoost /\ [][NextBoost]_vars

\* --------------------------------------- SpecRoundTrip: there and back
\* One collision held as two objects, kin in the center-of-mass frame and
\* twin in the fixed-target frame; an event generated in the fixed-target
\* frame is boosted by kin, then boosted back by twin.
TwoFrames(c, res1, res2, ev) ==
    /\ res1.raised = NoError
    /\ res2.raised = NoError
    /\ Representable(res1)
    /\ Representable(res2)
    /\ pc = "generated"
    /\ call = c
    /\ kin = res1.obj
    /\ err = NoError
    /\ twin = res2.obj
    /\ eq = <<>>
    /\ event = ev
    /\ hist = <<>>

InitRoundTrip ==
    \E p1 \in ParticleArgs, p2 \in ParticleArgs,
       i \in ScalarInputs \cup BeamInputs, ev \in Events :
        TwoFrames([fn |-> "EventKinematics",
                   args |-> WithInput(p1, p2, i, CENTER_OF_MASS),
                   energy |-> NoEnergy],
                  EventKinematicsInit(WithInput(p1, p2, i, CENTER_OF_MASS)),
                  EventKinematicsInit(WithInput(p1, p2, i, FIXED_TARGET)), ev)

BoostToCms ==
    /\ pc = "generated"
    /\ Called("kin", FIXED_TARGET, apply_boost(kin[1], event, FIXED_TARGET),
              "boosted")

BoostBack ==
    /\ pc = "boosted"
    /\ Called("twin", CENTER_OF_MASS,
              apply_boost(twin[1], event, CENTER_OF_MASS), "back")

NextRoundTrip == BoostToCms \/ BoostBack

SpecRoundTrip == InitRoundTrip /\ [][NextRoundTrip]_vars

\* ------------------------------------------------------------ properties
\* The masses the constructor used for an object's particles.
M1(o) == KinMass(o.p1)
M2(o) == KinMass(o.p2)

Ge(a, b) == Gt(a, b) \/ FEq(a, b)

\* E^2 = m^2 + pz^2 for one beam four-vector.
OnShell(b, m) == FEq(Sq(b[4]), Add(Sq(m), Sq(b[3])))

\* Both particles are set and the projectile is not a CompositeTarget.
ParticlesResolve(a) ==
    /\ a.particle1 # None
    /\ a.particle2 # None
    /\ ~IsCompositeTarget(process_particle(a.particle1))

\* C1: a call of EventKinematics with none or with several of ecm, plab,
\* elab, ekin, beam given raises ValueError (the count check's, whatever the
\* particles and the frame argument are) and constructs no object.
C1_OneInputRequired ==
    (call.fn = "EventKinematics" /\ Cardinality(Given(call.args)) # 1) =>
        /\ err = ValueError(OnlyOneInput)
        /\ kin = <<>>
        /\ pc = "failed"

\* Two inputs at once, with particles that would resolve, were refused.
C1_SeveralRefused ==
    /\ call.fn = "EventKinematics"
    /\ {"ecm", "plab"} \subseteq Given(call.args)
    /\ ParticlesResolve(call.args)
    /\ pc = "failed"
    /\ err = ValueError(OnlyOneInput)

\* C2 as stated: every constructed object has elab = ekin + m1 and
\* elab^2 - plab^2 = m1^2.
C2_ScalarsConsistent ==
    kin # <<>> =>
        /\ FEq(kin[1].elab, Add(kin[1].ekin, M1(kin[1])))
        /\ FEq(Sub(Sq(kin[1].elab), Sq(kin[1].plab)), Sq(M1(kin[1])))

\* The collision energy is at or above the threshold m1 + m2.
AboveThreshold(o) == Ge(o.ecm, Add(M1(o), M2(o)))

SameEvent(x, y) == ArrayEqual(x.en, y.en) /\ ArrayEqual(x.pz, y.pz)

\* C4 as stated: the factors of every constructed object satisfy
\* gamma_cm^2 - betagamma_cm^2 = 1, and the boost of an event by the
\* center-of-mass object (generator frame FIXED_TARGET) followed by the boost
\* by the fixed-target object (generator frame CENTER_OF_MASS) returns every
\* element of en and pz to its original value.
C4_RoundTrip ==
    /\ \A o \in {kin[1], twin[1]} :
        FEq(Sub(Sq(o.gamma_cm), Sq(o.betagamma_cm)), Int2F(1))
    /\ pc = "back" => SameEvent(event, hist[1].event)

\* The call hist[k] is one of the two supported frame pairs.
Supported(h) ==
    \/ h.gen = FIXED_TARGET /\ h.self.frame = CENTER_OF_MASS
    \/ h.gen = CENTER_OF_MASS /\ h.self.frame = FIXED_TARGET

\* The event and the object after the k-th call of apply_boost.
EventAfter(k) == IF k < Len(hist) THEN hist[k + 1].event ELSE event
SelfAfter(k) == IF k < Len(hist) THEN hist[k + 1].self ELSE kin[1]
ErrorAfter(k) == IF k < Len(hist) THEN NoError ELSE err

\* C5: for the two supported frame pairs apply_boost returns with
\* en[i] = gamma_cm*en[i] + bg*pz[i] and pz[i] = bg*en[i] + gamma_cm*pz[i] for
\* every i, both from the values before the call, with bg = -betagamma_cm for
\* generator frame FIXED_TARGET and bg = +betagamma_cm for generator frame
\* CENTER_OF_MASS.
C5_BoostFormula ==
    \A k \in 1..Len(hist) :
        Supported(hist[k]) =>
            /\ ErrorAfter(k) = NoError
            /\ Len(EventAfter(k).en) = Len(hist[k].event.en)
            /\ Len(EventAfter(k).pz) = Len(hist[k].event.pz)
            /\ \A i \in 1..Len(hist[k].event.en) :
                /\ EventAfter(k).en[i] =
                    Add(Mul(hist[k].self.gamma_cm, hist[k].event.en[i]),
                        Mul(IF hist[k].gen = FIXED_TARGET
                            THEN Neg(hist[k].self.betagamma_cm)
                            ELSE hist[k].self.betagamma_cm,
                            hist[k].event.pz[i]))
                /\ EventAfter(k).pz[i] =
                    Add(Mul(IF hist[k].gen = FIXED_TARGET
                            THEN Neg(hist[k].self.betagamma_cm)
                            ELSE hist[k].self.betagamma_cm,
                            hist[k].event.en[i]),
                        Mul(hist[k].self.gamma_cm, hist[k].event.pz[i]))

\* A supported boost with a positive betagamma_cm changed an event whose
\* first particle has momentum.
C5_Boosted ==
    \E k \in 1..Len(hist) :
        /\ Supported(hist[k])
        /\ Gt(hist[k].self.betagamma_cm, Zero)
        /\ Len(hist[k].event.pz) >= 1
        /\ hist[k].event.pz[1] # Zero
        /\ EventAfter(k) # hist[k].event

\* C6: apply_boost raises NotImplementedError for every pair of different
\* frames that is not one of the two supported pairs, and then the event's
\* arrays and the object are as they were before the call.
C6_UnsupportedBoost ==
    \A k \in 1..Len(hist) :
        (hist[k].gen # hist[k].self.frame /\ ~Supported(hist[k])) =>
            /\ k = Len(hist)
            /\ err = NotImplementedError(BoostNotSupported)
            /\ pc = "failed"
            /\ event = hist[k].event
            /\ kin[1] = hist[k].self

\* A boost from GENERIC on a center-of-mass object was refused, with
\* particles in the event.
C6_Refused ==
    /\ Len(hist) >= 1
    /\ hist[Len(hist)].gen = GENERIC
    /\ hist[Len(hist)].self.frame = CENTER_OF_MASS
    /\ Len(hist[Len(hist)].event.en) >= 1
    /\ err = NotImplementedError(BoostNotSupported)

\* C7: when the generator frame equals the object's frame apply_boost
\* returns without error and leaves en and pz unchanged; no call of
\* apply_boost changes a field of the object.
C7_IdentityBoost ==
    \A k \in 1..Len(hist) :
        /\ hist[k].gen = hist[k].self.frame =>
            /\ ErrorAfter(k) = NoError
            /\ EventAfter(k) = hist[k].event
        /\ SelfAfter(k) = hist[k].self

\* An identity boost was applied in the fixed-target frame to an event with
\* particles, on an object with a positive betagamma_cm.
C7_IdentityApplied ==
    \E k \in 1..Len(hist) :
        /\ hist[k].gen = FIXED_TARGET
        /\ hist[k].self.frame = FIXED_TARGET
        /\ Gt(hist[k].self.betagamma_cm, Zero)
        /\ Len(hist[k].event.en) >= 1
        /\ ErrorAfter(k) = NoError

\* The elab a call hands to the constructor as its single input: <<elab>>,
\* or <<>> when the call gives another input.
ElabOfCall ==
    IF call.fn = "FixedTarget" /\ call.energy.tag \in {"number", "TotalEnergy"}
    THEN <<float(call.energy)>>
    ELSE IF call.fn = "EventKinematics" /\ Given(call.args) = {"elab"}
    THEN call.args.elab
    ELSE <<>>

\* C8: with elab as the single input (given directly, or through FixedTarget
\* as a bare number or a TotalEnergy) and particles that resolve, the
\* constructor raises the ValueError of the energy check when elab <= m1 and
\* constructs the object when elab > m1; that ValueError is raised in no
\* other case.
C8_SubMassElabRejected ==
    /\ (ElabOfCall # <<>> /\ ParticlesResolve(call.args)) =>
        IF Gt(ElabOfCall[1], KinMass(process_particle(call.args.particle1)))
        THEN err = NoError /\ kin # <<>>
        ELSE err = ValueError(EnergyAboveMass) /\ kin = <<>>
    /\ err = ValueError(EnergyAboveMass) =>
        /\ ElabOfCall # <<>>
        /\ ParticlesResolve(call.args)

\* FixedTarget was given a bare number equal to the projectile mass and
\* refused it.
C8_AtMassRefused ==
    /\ call.fn = "FixedTarget"
    /\ call.energy.tag = "number"
    /\ ParticlesResolve(call.args)
    /\ float(call.energy) = KinMass(process_particle(call.args.particle1))
    /\ err = ValueError(EnergyAboveMass)
    /\ pc = "failed"

\* C9: FixedTarget passes a TotalEnergy or a bare number as elab, a KinEnergy
\* as ekin and a Momentum as plab: the object it constructs stores the given
\* number as that quantity and has frame FIXED_TARGET.  An energy of another
\* form raises the ValueError of the dispatch and constructs nothing, and
\* that ValueError is raised for no recognised form.
C9_FixedTargetDispatch ==
    call.fn = "FixedTarget" =>
        /\ call.energy.tag = "str" <=> err = ValueError(NotAnEnergy)
        /\ call.energy.tag = "str" => kin = <<>>
        /\ kin # <<>> =>
            /\ kin[1].frame = FIXED_TARGET
            /\ call.energy.tag \in {"TotalEnergy", "number"} =>
                kin[1].elab = float(call.energy)
            /\ call.energy.tag = "KinEnergy" =>
                kin[1].ekin = float(call.energy)
            /\ call.energy.tag = "Momentum" =>
                kin[1].plab = float(call.energy)

\* FixedTarget constructed an object from a positive KinEnergy.
C9_KinEnergyStored ==
    /\ call.fn = "FixedTarget"
    /\ call.energy.tag = "KinEnergy"
    /\ call.energy.val > 0
    /\ pc = "built"
    /\ kin[1].ekin = float(call.energy)

\* C10 as stated: a constructed object of frame GENERIC has beams with
\* px = py = 0, pz the supplied beam momenta (where a beam was supplied) and
\* E^2 = m^2 + pz^2; the beams of every constructed object satisfy
\* E^2 = m^2 + pz^2.
C10_BeamsOnShell ==
    kin # <<>> =>
        /\ kin[1].frame = GENERIC =>
            /\ \A i \in 1..2 : kin[1].beams[i][1] = Zero /\ kin[1].beams[i][2] = Zero
            /\ call.args.beam # <<>> =>
                \A i \in 1..2 : kin[1].beams[i][3] = call.args.beam[1][i]
        /\ OnShell(kin[1].beams[1], M1(kin[1]))
        /\ OnShell(kin[1].beams[2], M2(kin[1]))

====
